---- MODULE Spec2Model ----
(***************************************************************************)
(* The Time Context hierarchy of Open MCT: TimeAPI (the Global Time        *)
(* Context with its registries and the independent-context registry),      *)
(* the Independent Time Contexts it creates, and the resolver              *)
(* getContextForView.  Spec exercises the contexts, RegistrySpec the       *)
(* registries of time systems and clocks, TimeSystemSpec setTimeSystem.    *)
(*                                                                         *)
(* TimeAPI is modelled from its source.  GlobalTimeContext / TimeContext,  *)
(* IndependentTimeContext and the object API (makeKeyString,               *)
(* getRelativePath) are imported by that source but are not part of the    *)
(* available files; they are modelled from the specification (sections 3,  *)
(* 4.2, 4.4, 6).                                                           *)
(***************************************************************************)
EXTENDS Integers, Sequences, FiniteSets, TLC

\* ------------------------------------------------------------------ bounds

\* Number of IndependentTimeContext instances that may ever be constructed.
MaxContexts == 2

\* Number of onPathChange calls that may await their lookup at the same time.
MaxInFlight == 2

\* Number of unmounted components with a call in flight that are followed.
MaxUnmounted == 1

\* Number of confirmation dialogs a component has open at the same time.
MaxDialogs == 1

\* RecentObjectsList.vue
MAX_RECENT_ITEMS == 20

\* ------------------------------------------------------------- JS values

Undefined == "undefined"

\* JavaScript truthiness of the string-or-undefined values used as keys.
Truthy(v) == v # Undefined /\ v # ""

FIXED_MODE_KEY == "fixed"

REALTIME_MODE_KEY == "realtime"

\* A bounds / offsets pair that has not been set (a fresh context holds
\* {start: undefined, end: undefined}).
Unset == [start |-> -1, end |-> -1]

\* Values a clock delivers on a tick.
TimeValues == {0, 1}

\* The `value` argument of addIndependentContext and of setBounds: a
\* TimeBounds or a ClockOffsets pair (the second one is inverted).
ValueInputs == { [start |-> 0, end |-> 1], [start |-> 1, end |-> 0] }

ClockKeys == {"c1"}

\* Descriptors handed to addClock and addTimeSystem: an object with a unique
\* `key` and further properties, of which `name` stands for all.
Descriptor(key, name) == [key |-> key, name |-> name]

\* The clock registered in the runs that exercise the contexts.
Clocks == { Descriptor(k, "A") : k \in ClockKeys }

\* The descriptors registered in the runs that exercise the registries: two
\* keys, each with two different descriptors.
ClockDescriptors == { Descriptor(k, n) : k \in {"c1", "c2"}, n \in {"A", "B"} }

TimeSystemDescriptors == { Descriptor(k, n) : k \in {"utc", "sol"}, n \in {"A", "B"} }

\* The time system of the runs that exercise setTimeSystem.
TimeSystemKeys == {"utc"}

TimeSystems == { Descriptor(k, "A") : k \in TimeSystemKeys }

\* ------------------------------------------------------ the object API

\* Identifiers of domain objects: a namespace (possibly empty) and a key.
\* The identifier with empty namespace and empty key yields no key string.
Identifiers ==
    { [namespace |-> "", key |-> ""],
      [namespace |-> "", key |-> "p"],
      [namespace |-> "n", key |-> "a"] }

Obj(namespace, key) == [identifier |-> [namespace |-> namespace, key |-> key]]

\* identifier -> stable string.
makeKeyString(identifier) ==
    IF identifier.namespace = ""
    THEN identifier.key
    ELSE identifier.namespace \o ":" \o identifier.key

RECURSIVE JoinReversed(_)
JoinReversed(keys) ==
    IF Len(keys) = 0 THEN ""
    ELSE IF Len(keys) = 1 THEN keys[1]
    ELSE JoinReversed(Tail(keys)) \o "/" \o keys[1]

\* The normalized path string of an object path: the key strings of its
\* elements, outermost first, joined by "/".
getRelativePath(objectPath) ==
    JoinReversed([i \in 1..Len(objectPath) |-> makeKeyString(objectPath[i].identifier)])

KeyStrings == { makeKeyString(i) : i \in Identifiers } \ {""}

\* Object paths handed to the resolver: the view object n:a at the root and
\* below p (same key string, different relative path), and two paths whose
\* first element yields no key string.  No path starts with p, so the key
\* string p never has a registry entry.
ObjectPaths ==
    { <<Obj("n", "a")>>,
      <<Obj("n", "a"), Obj("", "p")>>,
      <<Obj("", "")>>,
      <<Obj("", ""), Obj("n", "a")>> }

\* Arguments handed to getContextForView: nothing, a non-array object, or an
\* array (possibly empty) of domain objects.
ResolverArgs ==
    { [kind |-> "undefined", path |-> <<>>],
      [kind |-> "object", path |-> <<>>],
      [kind |-> "array", path |-> <<>>] }
    \cup { [kind |-> "array", path |-> p] : p \in ObjectPaths }

IsArray(arg) == arg.kind = "array"

ContextIds == 1..MaxContexts

\* ------------------------------------------------------------------ state

VARIABLES
    global,               \* the Global Time Context's mode, clock, offsets, bounds, time system
    timeSystems,          \* TimeAPI.timeSystems: the descriptors in Map insertion order
    clocks,               \* TimeAPI.clocks: the descriptors in Map insertion order
    clockValue,           \* each clock's current value
    independentContexts,  \* TimeAPI.independentContexts: key string -> instance
    contexts,             \* every IndependentTimeContext constructed so far
    releaseFns,           \* keys for which addIndependentContext returned a release function
    gEvents,              \* events the Global Time Context emitted in the last call
    invoked,              \* per instance: events delivered to its listeners in the last call
    lastOp,               \* the last call, its arguments and its outcome
    recents,              \* RecentObjectsList: this.recents
    storage,              \* localStorage item 'mct-recent-objects'
    nameChangeListeners,  \* keys of this.nameChangeListeners (key string -> unlisten)
    observing,            \* key strings with a live name observer of the component
    compositionCollections, \* keys of this.compositionCollections (navigation paths)
    objectNames,          \* the object store: current name of the renamed objects
    pending,              \* onPathChange calls awaiting getRelativeObjectPath, in start order
    newest,               \* navigation path of the call started last
    recentOp,             \* the last step of the component and its outcome
    dialogs,              \* confirmation dialogs of clearRecentObjects the component has open
    mounted,              \* a component is mounted: its router listener is registered
    unmountedComponents   \* the instances unmounted with a call in flight or a dialog open

timeVars == <<global, timeSystems, clocks, clockValue, independentContexts, contexts,
              releaseFns, gEvents, invoked, lastOp>>

recentVars == <<recents, storage, nameChangeListeners, observing, compositionCollections,
                objectNames, pending, newest, recentOp, dialogs, mounted,
                unmountedComponents>>

vars == <<timeVars, recentVars>>

\* Instances constructed so far are contexts[1..Len(contexts)]; an instance is
\* identified by its index.
Allocated == 1..Len(contexts)

Event(name, key, value, tick) ==
    [name |-> name, key |-> key, value |-> value, tick |-> tick]

NoInvocations == [id \in ContextIds |-> <<>>]

\* `ret` is what the call returned ("throw" when it threw `error`); `list` is
\* a returned array, `seen` what a listener read during the call, `warning`
\* a message written to the console.
Op(op) ==
    [op |-> op, arg |-> [kind |-> "undefined", path |-> <<>>], key |-> "",
     value |-> Unset, clockKey |-> Undefined, id |-> 0,
     ret |-> "void", retId |-> 0, error |-> "", created |-> FALSE,
     name |-> "", list |-> <<>>, seen |-> Unset, warning |-> ""]

\* ------------------------------------------------ TimeContext (base) state

\* The operations of a Time Context on its own state c = [mode, clock,
\* offsets, bounds, ...]; each yields the new state, the events it emits in
\* order, and the error it fails with ("" when it succeeds).
Outcome(c, events, error) == [ctx |-> c, events |-> events, error |-> error]

setMode(c, mode) ==
    Outcome([c EXCEPT !.mode = mode],
            <<Event("modeChanged", mode, Unset, FALSE)>>, "")

setBounds(c, bounds) ==
    Outcome([c EXCEPT !.bounds = bounds],
            <<Event("boundsChanged", "", bounds, FALSE)>>, "")

BoundsAt(now, offsets) ==
    [start |-> now + offsets.start, end |-> now + offsets.end]

IsRegisteredClock(key) == key \in DOMAIN clocks.at

IsRegisteredTimeSystem(key) == key \in DOMAIN timeSystems.at

setClock(c, key, offsets) ==
    IF ~IsRegisteredClock(key)
    THEN Outcome(c, <<>>, "UnknownIdentifier")
    ELSE LET seeded == BoundsAt(clockValue[key], offsets)
         IN  Outcome([c EXCEPT !.clock = key, !.mode = REALTIME_MODE_KEY,
                               !.offsets = offsets, !.bounds = seeded],
                     <<Event("clockChanged", key, Unset, FALSE),
                       Event("boundsChanged", "", seeded, FALSE)>>, "")

\* (mutation) the bounds event is emitted before the time-system event.
setTimeSystemBoundsFirst(c, key, bounds) ==
    IF ~IsRegisteredTimeSystem(key)
    THEN Outcome(c, <<>>, "UnknownIdentifier")
    ELSE LET b == setBounds([c EXCEPT !.timeSystem = key], bounds)
         IN  Outcome(b.ctx, b.events \o <<Event("timeSystemChanged", key, Unset, FALSE)>>, "")

setTimeSystem(c, key, bounds) ==
    IF ~IsRegisteredTimeSystem(key)
    THEN Outcome(c, <<>>, "UnknownIdentifier")
    ELSE LET b == setBounds([c EXCEPT !.timeSystem = key], bounds)
         IN  Outcome(b.ctx, <<Event("timeSystemChanged", key, Unset, FALSE)>> \o b.events, "")

\* A tick of clock `key` delivering `now` to a context listening to it.
tick(c, key, now) ==
    IF c.clock = key /\ c.mode = REALTIME_MODE_KEY
    THEN LET b == BoundsAt(now, c.offsets)
         IN  Outcome([c EXCEPT !.bounds = b],
                     <<Event("boundsChanged", "", b, TRUE)>>, "")
    ELSE Outcome(c, <<>>, "")

\* ------------------------------------------------ IndependentTimeContext

\* new IndependentTimeContext(openmct, globalTimeContext, objectPath): the
\* context starts following the Global Time Context, without local state.
IndependentTimeContext(objectPath) ==
    [objectPath |-> objectPath, upstream |-> "global",
     mode |-> Undefined, clock |-> Undefined, offsets |-> Unset, bounds |-> Unset,
     timeSystem |-> Undefined]

\* resetContext(): stop following the upstream context and drop the local
\* clock listener.
resetContext(c) ==
    [c EXCEPT !.upstream = Undefined, !.clock = Undefined]

IsFollowing(c) == c.upstream = "global"

\* Read accessors: a following context proxies them to the Global Time Context.
getBounds(c) == IF IsFollowing(c) THEN global.bounds ELSE c.bounds

getMode(c) == IF IsFollowing(c) THEN global.mode ELSE c.mode

getClock(c) == IF IsFollowing(c) THEN global.clock ELSE c.clock

\* (mutation) a following context re-emits the bounds events only.
IsBoundsEvent(e) == e.name = "boundsChanged"

\* The time-context events of the Global Time Context that a following
\* context re-emits as its own.
IsTimeContextEvent(e) ==
    e.name \in {"boundsChanged", "modeChanged", "clockChanged", "timeSystemChanged"}

Passthrough(events) == SelectSeq(events, IsTimeContextEvent)

\* What each instance's listeners receive when the Global Time Context emits
\* `events`: every instance still following it re-emits them.
FollowersInvoked(events) ==
    [id \in ContextIds |->
        IF id \in Allocated /\ IsFollowing(contexts[id])
        THEN Passthrough(events) ELSE <<>>]

\* ---------------------------------------------------------------- TimeAPI

\* (mutation) the lookup answers with the first instance ever made for the key.
getFirstContextFor(key) ==
    LET made == { id \in Allocated :
                    Len(contexts[id].objectPath) > 0
                    /\ makeKeyString(contexts[id].objectPath[1].identifier) = key }
    IN  IF made = {} THEN 0 ELSE CHOOSE id \in made : \A other \in made : id <= other

\* Map.prototype.get / set / delete on independentContexts; 0 is undefined.
getIndependentContext(key) ==
    IF key \in DOMAIN independentContexts THEN independentContexts[key] ELSE 0

MapSet(m, key, v) ==
    [k \in DOMAIN m \cup {key} |-> IF k = key THEN v ELSE m[k]]

MapDelete(m, key) ==
    [k \in DOMAIN m \ {key} |-> m[k]]

\* (mutation) only a missing argument is rejected.
IsMissingObjectPath(arg) == arg.kind = "undefined"

\* `!objectPath || !Array.isArray(objectPath)`
IsInvalidObjectPath(arg) == arg.kind = "undefined" \/ ~IsArray(arg)

\* (mutation) the key is taken from the last element of the path.
ViewKeyOfLast(objectPath) ==
    IF Len(objectPath) = 0 THEN ""
    ELSE makeKeyString(objectPath[Len(objectPath)].identifier)

\* `objectPath.length && makeKeyString(objectPath[0].identifier)`; "" stands
\* for every falsy result (0 or the empty key string).
ViewKey(objectPath) ==
    IF Len(objectPath) = 0 THEN ""
    ELSE makeKeyString(objectPath[1].identifier)

\* (mutation) the paths are compared by identity: a path handed in is never
\* the stored array.
PathChangedByIdentity(existing, objectPath) == TRUE

\* (mutation) an entry is never replaced.
PathNeverChanged(existing, objectPath) == FALSE

\* (mutation) only the key strings of the first elements are compared.
PathChangedByKey(existing, objectPath) ==
    makeKeyString(contexts[existing].objectPath[1].identifier)
        # makeKeyString(objectPath[1].identifier)

\* `currentPath !== newPath`
PathChanged(existing, objectPath) ==
    getRelativePath(contexts[existing].objectPath) # getRelativePath(objectPath)

\* The registries timeSystems and clocks are Maps from key to descriptor: the
\* keys in insertion order and the descriptor stored at each.
EmptyRegistry == [order |-> <<>>, at |-> <<>>]

RegistryHas(registry, key) == key \in DOMAIN registry.at

\* (mutation) a key registered again moves to the end.
RegistrySetMovingLast(registry, key, descriptor) ==
    [order |-> Append(SelectSeq(registry.order, LAMBDA k : k # key), key),
     at |-> MapSet(registry.at, key, descriptor)]

\* (mutation) a key registered again keeps its first descriptor.
RegistrySetKeepingFirst(registry, key, descriptor) ==
    IF RegistryHas(registry, key) THEN registry
    ELSE [order |-> Append(registry.order, key),
          at |-> MapSet(registry.at, key, descriptor)]

\* Map.prototype.set: a new key is appended, a key already present keeps its
\* position and gets the new value.
RegistrySet(registry, key, descriptor) ==
    [order |-> IF RegistryHas(registry, key) THEN registry.order
               ELSE Append(registry.order, key),
     at |-> MapSet(registry.at, key, descriptor)]

\* Array.from(map.values())
RegistryValues(registry) ==
    [i \in 1..Len(registry.order) |-> registry.at[registry.order[i]]]

\* ------------------------------------------------------ RecentObjectsList

\* A navigation path is the sequence of its segments: '/browse/mine/a' is
\* <<"browse", "mine", "a">>.
NavigationPaths ==
    { <<"browse", "a">>,
      <<"browse", "mine", "a">>,
      <<"browse", "ROOT", "mine">>,
      <<"browse", "gone">>,
      <<"browse", "nope">>,
      <<"edit", "a">> }

\* `navigationPath.startsWith('/browse/')`
StartsWithBrowse(navigationPath) ==
    Len(navigationPath) >= 2 /\ navigationPath[1] = "browse"

\* `navigationPath.includes('/ROOT')`
IncludesRoot(navigationPath) ==
    \E i \in 1..Len(navigationPath) : navigationPath[i] = "ROOT"

\* `navigationPath.replace('/ROOT', '')`: the first occurrence is dropped.
ReplaceRoot(navigationPath) ==
    IF ~IncludesRoot(navigationPath) THEN navigationPath
    ELSE LET first == CHOOSE i \in 1..Len(navigationPath) :
                          /\ navigationPath[i] = "ROOT"
                          /\ \A j \in 1..(i - 1) : navigationPath[j] # "ROOT"
         IN  [i \in 1..(Len(navigationPath) - 1) |->
                 IF i < first THEN navigationPath[i] ELSE navigationPath[i + 1]]

\* `navigationPath.includes(removedNavigationPath)` for a removed path that
\* starts with '/browse/': with segments none of which is the beginning of
\* another, the removed path is found only at the start.
IncludesPath(navigationPath, removedNavigationPath) ==
    /\ Len(removedNavigationPath) <= Len(navigationPath)
    /\ \A i \in 1..Len(removedNavigationPath) : navigationPath[i] = removedNavigationPath[i]

\* The objects of the object store other than the fillers: their location
\* (null for a deleted object) and whether they support composition.
Location(key) ==
    CASE key = "mine" -> "ROOT"
      [] key = "gone" -> "null"
      [] OTHER -> "mine"

SupportsComposition(key) == key = "mine"

\* The keys of the objects that fill a saved list up to the maximum.
FillerKey(i) == "f" \o ToString(i)

FillerKeys == { FillerKey(i) : i \in 1..(MAX_RECENT_ITEMS - 2) }

ObjectKeys == {"a", "mine", "gone"} \cup FillerKeys

\* Names an object is renamed to.
Names == {"A", "B"}

\* The objects whose name changes, and the name they start with.
InitialNames == [k \in {"a"} |-> "A"]

\* The object of the store under `key`, carrying its current name.
DomainObject(key, names) ==
    [identifier |-> [namespace |-> "", key |-> key],
     name |-> IF key \in DOMAIN names THEN names[key] ELSE key,
     location |-> Location(key)]

RECURSIVE Reverse(_)
Reverse(s) == IF Len(s) = 0 THEN <<>> ELSE Append(Reverse(Tail(s)), Head(s))

\* getRelativeObjectPath(navigationPath): the objects named by the path
\* after '/browse', the object navigated to first and ROOT left out; empty
\* when the path names an object the store does not have.
getRelativeObjectPath(navigationPath, names) ==
    LET keys == SelectSeq(Tail(navigationPath), LAMBDA k : k # "ROOT")
    IN  IF \A i \in 1..Len(keys) : keys[i] \in ObjectKeys
        THEN Reverse([i \in 1..Len(keys) |-> DomainObject(keys[i], names)])
        ELSE <<>>

RecentItem(objectPath, navigationPath, domainObject) ==
    [objectPath |-> objectPath, navigationPath |-> navigationPath,
     domainObject |-> domainObject]

\* JSON.stringify(this.recents): every item becomes the text of its three
\* properties, every object the text of its identifier, name and location.
StringifyObject(o) == <<o.identifier.namespace, o.identifier.key, o.name, o.location>>

Stringify(list) ==
    [i \in 1..Len(list) |->
        <<[j \in 1..Len(list[i].objectPath) |-> StringifyObject(list[i].objectPath[j])],
          list[i].navigationPath,
          StringifyObject(list[i].domainObject)>>]

\* JSON.parse
ParseObject(t) ==
    [identifier |-> [namespace |-> t[1], key |-> t[2]], name |-> t[3], location |-> t[4]]

Parse(text) ==
    [i \in 1..Len(text) |->
        RecentItem([j \in 1..Len(text[i][1]) |-> ParseObject(text[i][1][j])],
                   text[i][2],
                   ParseObject(text[i][3]))]

\* localStorage: the item under LOCAL_STORAGE_KEY__RECENT_OBJECTS.
NoItem == [present |-> FALSE, text |-> <<>>]

Item(text) == [present |-> TRUE, text |-> text]

\* `savedRecentsString ? JSON.parse(savedRecentsString) : []`
SavedRecents(item) == IF item.present THEN Parse(item.text) ELSE <<>>

\* A list saved by an earlier session that holds the maximum number of
\* items: the object a was visited directly and then below mine, and the
\* fillers after that.
FullList ==
    LET item(path) == LET objectPath == getRelativeObjectPath(path, InitialNames)
                   IN  RecentItem(objectPath, path, objectPath[1])
    IN  [i \in 1..(MAX_RECENT_ITEMS - 2) |-> item(<<"browse", FillerKey(i)>>)]
        \o <<item(<<"browse", "mine", "a">>), item(<<"browse", "a">>)>>

\* What localStorage holds when the component is mounted.
StoredItems == {NoItem, Item(Stringify(FullList))}

\* addNameListenerFor(domainObject): observe the name unless the map holds
\* an entry for the key string already.
addNameListenerFor(l, key) ==
    IF key \in l.listeners THEN l
    ELSE [listeners |-> l.listeners \cup {key}, observing |-> l.observing \cup {key}]

\* removeNameListenerFor(domainObject): call the unlisten function the map
\* holds for the key string and delete the entry.
removeNameListenerFor(l, key) ==
    IF key \in l.listeners
    THEN [listeners |-> l.listeners \ {key}, observing |-> l.observing \ {key}]
    ELSE l

RECURSIVE removeNameListenersFor(_, _)
removeNameListenersFor(l, items) ==
    IF Len(items) = 0 THEN l
    ELSE removeNameListenersFor(
             removeNameListenerFor(l, makeKeyString(Head(items).domainObject.identifier)),
             Tail(items))

\* updateRecentObjectName(keyString, newName)
updateRecentObjectName(list, keyString, newName) ==
    [i \in 1..Len(list) |->
        IF makeKeyString(list[i].domainObject.identifier) = keyString
        THEN [list[i] EXCEPT !.domainObject.name = newName]
        ELSE list[i]]

\* `findIndex(..navigationPath === recentObject.navigationPath)`; 0 is -1.
FindIndex(list, navigationPath) ==
    IF \E i \in 1..Len(list) : list[i].navigationPath = navigationPath
    THEN CHOOSE i \in 1..Len(list) :
             /\ list[i].navigationPath = navigationPath
             /\ \A j \in 1..(i - 1) : list[j].navigationPath # navigationPath
    ELSE 0

\* splice(existingIndex, 1) when the path is in the list, then unshift(item).
MoveToTop(list, item) ==
    LET existingIndex == FindIndex(list, item.navigationPath)
        spliced == IF existingIndex = 0 THEN list
                   ELSE [i \in 1..(Len(list) - 1) |->
                            IF i < existingIndex THEN list[i] ELSE list[i + 1]]
    IN  <<item>> \o spliced

\* (mutation) the items over the limit are taken from the head.
EnforceMaxShifting(list) ==
    IF Len(list) > MAX_RECENT_ITEMS
    THEN SubSeq(list, Len(list) - MAX_RECENT_ITEMS + 1, Len(list))
    ELSE list

\* `while (this.recents.length > MAX_RECENT_ITEMS) this.recents.pop()`:
\* the list that is left.
EnforceMax(list) ==
    IF Len(list) > MAX_RECENT_ITEMS THEN SubSeq(list, 1, MAX_RECENT_ITEMS) ELSE list

\* The items of `list` that are not in `kept`, in list order.
Popped(list, kept) ==
    SelectSeq(list, LAMBDA item : \A i \in 1..Len(kept) : kept[i] # item)

\* setSavedRecentItems(): the item localStorage holds afterwards.
SavedItems(list) == Item(Stringify(list))

\* The paths of `items` whose object supports composition.
ComposablePaths(items) ==
    { items[i].navigationPath : i \in { j \in 1..Len(items) :
          SupportsComposition(makeKeyString(items[j].domainObject.identifier)) } }

ItemKeys(items) ==
    { makeKeyString(items[i].domainObject.identifier) : i \in 1..Len(items) }

RecentOp(op) == [op |-> op, outcome |-> ""]

\* mounted() on a new component while localStorage holds `item`: empty maps,
\* then getSavedRecentItems().
MountedOn(item) ==
    LET savedRecents == SavedRecents(item) IN
    /\ mounted = TRUE
    /\ dialogs = 0
    /\ unmountedComponents = <<>>
    /\ recents = savedRecents
    /\ nameChangeListeners = ItemKeys(savedRecents)
    /\ observing = ItemKeys(savedRecents)
    /\ compositionCollections = ComposablePaths(savedRecents)
    /\ storage = item
    /\ objectNames = InitialNames
    /\ pending = <<>>
    /\ newest = <<>>
    /\ recentOp = RecentOp("mounted")

\* The TimeAPI after its construction.
TimeAPIInit ==
    /\ global = [mode |-> FIXED_MODE_KEY, clock |-> Undefined,
                 offsets |-> Unset, bounds |-> Unset, timeSystem |-> Undefined]
    /\ timeSystems = EmptyRegistry
    /\ clocks = EmptyRegistry
    /\ clockValue = [k \in ClockKeys |-> 0]
    /\ independentContexts = <<>>
    /\ contexts = <<>>
    /\ releaseFns = {}
    /\ gEvents = <<>>
    /\ invoked = NoInvocations
    /\ lastOp = Op("init")

\* A new TimeAPI, and the component mounted on an empty localStorage.
Init == TimeAPIInit /\ MountedOn(NoItem)

\* A new TimeAPI, and the component mounted on what an earlier session left.
RecentObjectsInit == TimeAPIInit /\ \E item \in StoredItems : MountedOn(item)

GetContextForView(arg) ==
    LET this == [Op("getContextForView") EXCEPT !.arg = arg]
        viewKey == ViewKey(arg.path)
        existing == getIndependentContext(viewKey)
        fresh == Len(contexts) + 1
    IN
    /\ gEvents' = <<>>
    /\ invoked' = NoInvocations
    /\ UNCHANGED <<recentVars, global, timeSystems, clocks, clockValue, releaseFns>>
    /\ IF IsInvalidObjectPath(arg)
       THEN /\ lastOp' = [this EXCEPT !.ret = "throw", !.error = "No objectPath provided"]
            /\ UNCHANGED <<independentContexts, contexts>>
       ELSE IF ~Truthy(viewKey)
       THEN /\ lastOp' = [this EXCEPT !.ret = "global"]
            /\ UNCHANGED <<independentContexts, contexts>>
       ELSE IF existing = 0
       THEN /\ fresh \in ContextIds
            /\ contexts' = Append(contexts, IndependentTimeContext(arg.path))
            /\ independentContexts' = MapSet(independentContexts, viewKey, fresh)
            /\ lastOp' = [this EXCEPT !.ret = "context", !.retId = fresh, !.created = TRUE]
       ELSE IF PathChanged(existing, arg.path)
       THEN /\ fresh \in ContextIds
            /\ contexts' = Append(contexts, IndependentTimeContext(arg.path))
            /\ independentContexts' =
                   MapSet(MapDelete(independentContexts, viewKey), viewKey, fresh)
            /\ lastOp' = [this EXCEPT !.ret = "context", !.retId = fresh, !.created = TRUE]
       ELSE /\ lastOp' = [this EXCEPT !.ret = "context", !.retId = existing]
            /\ UNCHANGED <<independentContexts, contexts>>

\* (mutation) the context is reset after the new state was applied.
OverrideStepsResetLast(c, value, clockKey) ==
    IF Truthy(clockKey)
    THEN LET m == setMode(c, REALTIME_MODE_KEY)
             k == setClock(m.ctx, clockKey, value)
         IN  <<m, k, Outcome(resetContext(k.ctx), <<>>, k.error)>>
    ELSE LET m == setMode(c, FIXED_MODE_KEY)
             b == setBounds(m.ctx, value)
         IN  <<m, b, Outcome(resetContext(b.ctx), <<>>, b.error)>>

\* (mutation) the context is not reset.
OverrideStepsNoReset(c, value, clockKey) ==
    LET reset == Outcome(c, <<>>, "") IN
    IF Truthy(clockKey)
    THEN LET m == setMode(reset.ctx, REALTIME_MODE_KEY)
             k == setClock(m.ctx, clockKey, value)
         IN  <<reset, m, k>>
    ELSE LET m == setMode(reset.ctx, FIXED_MODE_KEY)
             b == setBounds(m.ctx, value)
         IN  <<reset, m, b>>

\* (mutation) the FIXED branch does not set the mode.
OverrideStepsKeepMode(c, value, clockKey) ==
    LET reset == Outcome(resetContext(c), <<>>, "") IN
    IF Truthy(clockKey)
    THEN LET m == setMode(reset.ctx, REALTIME_MODE_KEY)
             k == setClock(m.ctx, clockKey, value)
         IN  <<reset, m, k>>
    ELSE LET b == setBounds(reset.ctx, value)
         IN  <<reset, reset, b>>

\* (mutation) setClock is called without the offsets.
OverrideStepsNoOffsets(c, value, clockKey) ==
    LET reset == Outcome(resetContext(c), <<>>, "") IN
    IF Truthy(clockKey)
    THEN LET m == setMode(reset.ctx, REALTIME_MODE_KEY)
             k == setClock(m.ctx, clockKey, m.ctx.offsets)
         IN  <<reset, m, k>>
    ELSE LET m == setMode(reset.ctx, FIXED_MODE_KEY)
             b == setBounds(m.ctx, value)
         IN  <<reset, m, b>>

\* addIndependentContext(key, value, clockKey) from the state `c` of the
\* resolved context, statement by statement: the outcome of resetContext(),
\* of setMode(..) and of setClock(..) or setBounds(..), each applied to the
\* state the statement before it left.
OverrideSteps(c, value, clockKey) ==
    LET reset == Outcome(resetContext(c), <<>>, "") IN
    IF Truthy(clockKey)
    THEN LET m == setMode(reset.ctx, REALTIME_MODE_KEY)
             k == setClock(m.ctx, clockKey, value)
         IN  <<reset, m, k>>
    ELSE LET m == setMode(reset.ctx, FIXED_MODE_KEY)
             b == setBounds(m.ctx, value)
         IN  <<reset, m, b>>

\* The whole of it: the context's new state, the events it emitted and the
\* error that ended the call early ("" when it ran to its end).
ApplyOverride(c, value, clockKey) ==
    LET s == OverrideSteps(c, value, clockKey)
    IN  Outcome(s[3].ctx, s[1].events \o s[2].events \o s[3].events, s[3].error)

\* (mutation) refreshContext is emitted before the override is applied.
StateBeforeOverride(before, after) == before

\* The state of the context at the time `this.emit('refreshContext', key)`
\* runs: the one the statements before it left.
StateAtRefresh(before, after) == after

\* (mutation) the bounds of a FIXED override are set on the TimeAPI itself
\* as well.
AddIndependentContextOnThis(key, value, clockKey) ==
    LET this == [Op("addIndependentContext") EXCEPT
                     !.key = key, !.value = value, !.clockKey = clockKey]
        timeContext == getIndependentContext(key)
    IN
    /\ UNCHANGED <<recentVars, timeSystems, clocks, clockValue, independentContexts>>
    /\ IF timeContext = 0
       THEN /\ lastOp' = [this EXCEPT !.ret = "throw", !.error = "TypeError"]
            /\ gEvents' = <<>>
            /\ invoked' = NoInvocations
            /\ UNCHANGED <<global, contexts, releaseFns>>
       ELSE LET r == ApplyOverride(contexts[timeContext], value, clockKey) IN
            /\ contexts' = [contexts EXCEPT ![timeContext] = r.ctx]
            /\ invoked' = [NoInvocations EXCEPT ![timeContext] = r.events]
            /\ global' = IF Truthy(clockKey) THEN global ELSE setBounds(global, value).ctx
            /\ IF r.error # ""
               THEN /\ gEvents' = <<>>
                    /\ lastOp' = [this EXCEPT !.id = timeContext,
                                              !.ret = "throw", !.error = r.error]
                    /\ UNCHANGED releaseFns
               ELSE /\ gEvents' = <<Event("refreshContext", key, Unset, FALSE)>>
                    /\ lastOp' = [this EXCEPT !.id = timeContext, !.ret = "release",
                                      !.seen = getBounds(StateAtRefresh(contexts[timeContext], r.ctx))]
                    /\ releaseFns' = releaseFns \cup {key}

\* `seen` records the bounds a refreshContext listener reads from the
\* context for `key` inside its handler.
AddIndependentContext(key, value, clockKey) ==
    LET this == [Op("addIndependentContext") EXCEPT
                     !.key = key, !.value = value, !.clockKey = clockKey]
        timeContext == getIndependentContext(key)
    IN
    /\ UNCHANGED <<recentVars, global, timeSystems, clocks, clockValue, independentContexts>>
    /\ IF timeContext = 0
       THEN \* timeContext.resetContext() on undefined
            /\ lastOp' = [this EXCEPT !.ret = "throw", !.error = "TypeError"]
            /\ gEvents' = <<>>
            /\ invoked' = NoInvocations
            /\ UNCHANGED <<contexts, releaseFns>>
       ELSE LET r == ApplyOverride(contexts[timeContext], value, clockKey)
                atRefresh == StateAtRefresh(contexts[timeContext], r.ctx)
            IN
            /\ contexts' = [contexts EXCEPT ![timeContext] = r.ctx]
            /\ invoked' = [NoInvocations EXCEPT ![timeContext] = r.events]
            /\ IF r.error # ""
               THEN /\ gEvents' = <<>>
                    /\ lastOp' = [this EXCEPT !.id = timeContext,
                                              !.ret = "throw", !.error = r.error]
                    /\ UNCHANGED releaseFns
               ELSE /\ gEvents' = <<Event("refreshContext", key, Unset, FALSE)>>
                    /\ lastOp' = [this EXCEPT !.id = timeContext, !.ret = "release",
                                      !.seen = getBounds(atRefresh)]
                    /\ releaseFns' = releaseFns \cup {key}

\* (mutation) a lookup that finds nothing forgets every entry.
GetIndependentContextClearing(key) ==
    /\ independentContexts' =
           IF getIndependentContext(key) = 0 THEN <<>> ELSE independentContexts
    /\ gEvents' = <<>>
    /\ invoked' = NoInvocations
    /\ lastOp' = [Op("getIndependentContext") EXCEPT
                      !.key = key, !.retId = getIndependentContext(key),
                      !.ret = IF getIndependentContext(key) = 0 THEN "undefined" ELSE "context"]
    /\ UNCHANGED <<recentVars, global, timeSystems, clocks, clockValue, contexts, releaseFns>>

\* getIndependentContext(key) called from outside the TimeAPI.
GetIndependentContext(key) ==
    /\ gEvents' = <<>>
    /\ invoked' = NoInvocations
    /\ lastOp' = [Op("getIndependentContext") EXCEPT
                      !.key = key, !.retId = getIndependentContext(key),
                      !.ret = IF getIndependentContext(key) = 0 THEN "undefined" ELSE "context"]
    /\ UNCHANGED <<recentVars, global, timeSystems, clocks, clockValue, independentContexts,
                   contexts, releaseFns>>

\* (mutation) the release function removes the registry entry as well.
ReleaseDeleting(key) ==
    /\ key \in releaseFns
    /\ gEvents' = <<Event("removeOwnContext", key, Unset, FALSE)>>
    /\ invoked' = FollowersInvoked(gEvents')
    /\ independentContexts' = MapDelete(independentContexts, key)
    /\ lastOp' = [Op("release") EXCEPT !.key = key]
    /\ UNCHANGED <<recentVars, global, timeSystems, clocks, clockValue, contexts, releaseFns>>

\* The function addIndependentContext returned for `key`, called by its
\* holder: `this.emit('removeOwnContext', key)`.
Release(key) ==
    /\ key \in releaseFns
    /\ gEvents' = <<Event("removeOwnContext", key, Unset, FALSE)>>
    /\ invoked' = FollowersInvoked(gEvents')
    /\ lastOp' = [Op("release") EXCEPT !.key = key]
    /\ UNCHANGED <<recentVars, global, timeSystems, clocks, clockValue, independentContexts,
                   contexts, releaseFns>>

\* addTimeSystem(timeSystem)
AddTimeSystem(timeSystem) ==
    /\ timeSystems' = RegistrySet(timeSystems, timeSystem.key, timeSystem)
    /\ gEvents' = <<>>
    /\ invoked' = NoInvocations
    /\ lastOp' = [Op("addTimeSystem") EXCEPT !.key = timeSystem.key, !.name = timeSystem.name]
    /\ UNCHANGED <<recentVars, global, clocks, clockValue, independentContexts, contexts, releaseFns>>

\* getAllTimeSystems()
GetAllTimeSystems ==
    /\ gEvents' = <<>>
    /\ invoked' = NoInvocations
    /\ lastOp' = [Op("getAllTimeSystems") EXCEPT !.ret = "array",
                                                 !.list = RegistryValues(timeSystems)]
    /\ UNCHANGED <<recentVars, global, timeSystems, clocks, clockValue, independentContexts,
                   contexts, releaseFns>>

\* addClock(clock)
AddClock(clock) ==
    /\ clocks' = RegistrySet(clocks, clock.key, clock)
    /\ gEvents' = <<>>
    /\ invoked' = NoInvocations
    /\ lastOp' = [Op("addClock") EXCEPT !.key = clock.key, !.name = clock.name]
    /\ UNCHANGED <<recentVars, global, timeSystems, clockValue, independentContexts, contexts, releaseFns>>

\* getAllClocks()
GetAllClocks ==
    /\ gEvents' = <<>>
    /\ invoked' = NoInvocations
    /\ lastOp' = [Op("getAllClocks") EXCEPT !.ret = "array",
                                            !.list = RegistryValues(clocks)]
    /\ UNCHANGED <<recentVars, global, timeSystems, clocks, clockValue, independentContexts,
                   contexts, releaseFns>>

\* setBounds(bounds) on the Global Time Context.
GlobalSetBounds(bounds) ==
    LET r == setBounds(global, bounds) IN
    /\ global' = r.ctx
    /\ gEvents' = r.events
    /\ invoked' = FollowersInvoked(r.events)
    /\ lastOp' = [Op("global.setBounds") EXCEPT !.value = bounds]
    /\ UNCHANGED <<recentVars, timeSystems, clocks, clockValue, independentContexts, contexts, releaseFns>>

\* setBounds(bounds) called by a view on an instance it holds, when that
\* instance overrides the Global Time Context in FIXED mode.
IndependentSetBounds(id, bounds) ==
    /\ id \in Allocated
    /\ ~IsFollowing(contexts[id])
    /\ contexts[id].mode = FIXED_MODE_KEY
    /\ LET r == setBounds(contexts[id], bounds) IN
       /\ contexts' = [contexts EXCEPT ![id] = r.ctx]
       /\ invoked' = [NoInvocations EXCEPT ![id] = r.events]
    /\ gEvents' = <<>>
    /\ lastOp' = [Op("context.setBounds") EXCEPT !.id = id, !.value = bounds]
    /\ UNCHANGED <<recentVars, global, timeSystems, clocks, clockValue, independentContexts, releaseFns>>

\* setMode(mode) on the Global Time Context.
GlobalSetMode(mode) ==
    LET r == setMode(global, mode) IN
    /\ global' = r.ctx
    /\ gEvents' = r.events
    /\ invoked' = FollowersInvoked(r.events)
    /\ lastOp' = [Op("global.setMode") EXCEPT !.key = mode]
    /\ UNCHANGED <<recentVars, timeSystems, clocks, clockValue, independentContexts, contexts, releaseFns>>

\* setTimeSystem(key, bounds) on the Global Time Context.
GlobalSetTimeSystem(key, bounds) ==
    LET r == setTimeSystem(global, key, bounds) IN
    /\ global' = r.ctx
    /\ gEvents' = r.events
    /\ invoked' = FollowersInvoked(r.events)
    /\ lastOp' = [Op("global.setTimeSystem") EXCEPT
                      !.key = key, !.value = bounds, !.error = r.error,
                      !.ret = IF r.error = "" THEN "void" ELSE "throw"]
    /\ UNCHANGED <<recentVars, timeSystems, clocks, clockValue, independentContexts, contexts, releaseFns>>

\* setTimeSystem(key, bounds) called by a view on an instance it holds, when
\* that instance overrides the Global Time Context.
IndependentSetTimeSystem(id, key, bounds) ==
    /\ id \in Allocated
    /\ ~IsFollowing(contexts[id])
    /\ LET r == setTimeSystem(contexts[id], key, bounds) IN
       /\ contexts' = [contexts EXCEPT ![id] = r.ctx]
       /\ invoked' = [NoInvocations EXCEPT ![id] = r.events]
       /\ lastOp' = [Op("context.setTimeSystem") EXCEPT
                         !.id = id, !.key = key, !.value = bounds, !.error = r.error,
                         !.ret = IF r.error = "" THEN "void" ELSE "throw"]
    /\ gEvents' = <<>>
    /\ UNCHANGED <<recentVars, global, timeSystems, clocks, clockValue, independentContexts, releaseFns>>

\* A registered clock ticks: every context listening to it recomputes its
\* bounds; followers of the Global Time Context re-emit its bounds event.
Tick(key, now) ==
    LET g == tick(global, key, now) IN
    /\ IsRegisteredClock(key)
    /\ clockValue' = [clockValue EXCEPT ![key] = now]
    /\ global' = g.ctx
    /\ gEvents' = g.events
    /\ contexts' = [id \in Allocated |->
                       IF IsFollowing(contexts[id]) THEN contexts[id]
                       ELSE tick(contexts[id], key, now).ctx]
    /\ invoked' = [id \in ContextIds |->
                      IF id \notin Allocated THEN <<>>
                      ELSE IF IsFollowing(contexts[id]) THEN Passthrough(g.events)
                      ELSE tick(contexts[id], key, now).events]
    /\ lastOp' = [Op("tick") EXCEPT !.clockKey = key, !.value = [start |-> now, end |-> now]]
    /\ UNCHANGED <<recentVars, timeSystems, clocks, independentContexts, releaseFns>>

\* ------------------------------------------- RecentObjectsList (handlers)

\* The state of one component instance.
Component(r, l, o, c, p, d) ==
    [recents |-> r, nameChangeListeners |-> l, observing |-> o,
     compositionCollections |-> c, pending |-> p, dialogs |-> d]

\* The instance that is mounted; every field is empty when none is.
MountedComponent ==
    Component(recents, nameChangeListeners, observing, compositionCollections, pending,
              dialogs)

\* onPathChange(navigationPath) up to its `await`, called by the router on
\* the mounted component: a path outside '/browse/' returns at once, any
\* other starts the lookup of its object path.
OnPathChange(navigationPath) ==
    /\ mounted
    /\ StartsWithBrowse(navigationPath) => Len(pending) < MaxInFlight
    /\ IF ~StartsWithBrowse(navigationPath)
       THEN /\ recentOp' = [RecentOp("onPathChange") EXCEPT !.outcome = "ignored"]
            /\ UNCHANGED <<pending, newest>>
       ELSE /\ pending' = Append(pending, navigationPath)
            /\ newest' = navigationPath
            /\ recentOp' = [RecentOp("onPathChange") EXCEPT !.outcome = "awaiting"]
    /\ UNCHANGED <<timeVars, dialogs, recents, storage, nameChangeListeners, observing,
                   compositionCollections, objectNames, mounted, unmountedComponents>>

\* onPathChange on the instance `c` from the resolution of the lookup of its
\* i-th call in flight to its end: the instance afterwards, how the call
\* ended and whether it reached setSavedRecentItems().
AfterLookup(c, i) ==
    LET objectPath == getRelativeObjectPath(c.pending[i], objectNames)
        domainObject == objectPath[1]
        keyString == makeKeyString(domainObject.identifier)
        navigationPath == ReplaceRoot(c.pending[i])
        resolved == [c EXCEPT !.pending =
                        [j \in 1..(Len(c.pending) - 1) |->
                            IF j < i THEN c.pending[j] ELSE c.pending[j + 1]]]
        tracked == IF /\ navigationPath \notin c.compositionCollections
                      /\ SupportsComposition(keyString)
                   THEN c.compositionCollections \cup {navigationPath}
                   ELSE c.compositionCollections
        listening == addNameListenerFor(
                         [listeners |-> c.nameChangeListeners, observing |-> c.observing],
                         keyString)
        moved == MoveToTop(c.recents,
                           RecentItem(objectPath, navigationPath, domainObject))
        kept == EnforceMax(moved)
        popped == Popped(moved, kept)
        listened == removeNameListenersFor(listening, popped)
    IN  IF Len(objectPath) = 0
        THEN [component |-> resolved, outcome |-> "no object", saved |-> FALSE]
        ELSE IF domainObject.location = "null"
        THEN [component |-> [resolved EXCEPT !.compositionCollections = tracked],
              outcome |-> "deleted", saved |-> FALSE]
        ELSE [component |->
                  [resolved EXCEPT
                      !.recents = kept,
                      !.compositionCollections =
                          tracked \ { popped[j].navigationPath : j \in 1..Len(popped) },
                      !.nameChangeListeners = listened.listeners,
                      !.observing = listened.observing],
              outcome |-> IF Len(popped) > 0 THEN "evicted" ELSE "added",
              saved |-> TRUE]

\* The lookup of the i-th call in flight of the mounted component resolves.
\* The lookups resolve in any order.
LookupResolved(i) ==
    /\ i \in 1..Len(pending)
    /\ LET after == AfterLookup(MountedComponent, i) IN
       /\ recents' = after.component.recents
       /\ nameChangeListeners' = after.component.nameChangeListeners
       /\ observing' = after.component.observing
       /\ compositionCollections' = after.component.compositionCollections
       /\ pending' = after.component.pending
       /\ storage' = IF after.saved THEN SavedItems(after.component.recents) ELSE storage
       /\ recentOp' = [RecentOp("lookupResolved") EXCEPT !.outcome = after.outcome]
    /\ UNCHANGED <<timeVars, dialogs, objectNames, newest, mounted, unmountedComponents>>

\* The lookup of a call started by a component that was unmounted since
\* resolves: nothing cancels the call, and it runs to its end on that
\* instance, localStorage included.
UnmountedLookupResolved(n, i) ==
    /\ n \in 1..Len(unmountedComponents)
    /\ i \in 1..Len(unmountedComponents[n].pending)
    /\ LET after == AfterLookup(unmountedComponents[n], i) IN
       /\ unmountedComponents' = [unmountedComponents EXCEPT ![n] = after.component]
       /\ storage' = IF after.saved THEN SavedItems(after.component.recents) ELSE storage
       /\ recentOp' = [RecentOp("unmountedLookupResolved") EXCEPT !.outcome = after.outcome]
    /\ UNCHANGED <<timeVars, dialogs, recents, nameChangeListeners, observing,
                   compositionCollections, pending, objectNames, newest, mounted>>

\* The object under `key` is renamed. Every live observer, of the mounted
\* component and of the unmounted ones, runs updateRecentObjectName(keyString,
\* newName) on its instance.
Rename(key, newName) ==
    /\ key \in DOMAIN objectNames
    /\ objectNames[key] # newName
    /\ objectNames' = [objectNames EXCEPT ![key] = newName]
    /\ recents' = IF key \in observing
                  THEN updateRecentObjectName(recents, key, newName)
                  ELSE recents
    /\ unmountedComponents' =
           [n \in 1..Len(unmountedComponents) |->
               IF key \in unmountedComponents[n].observing
               THEN [unmountedComponents[n] EXCEPT
                        !.recents = updateRecentObjectName(@, key, newName)]
               ELSE unmountedComponents[n]]
    /\ recentOp' = [RecentOp("rename") EXCEPT
           !.outcome = IF key \in observing THEN "observed" ELSE "unobserved"]
    /\ UNCHANGED <<timeVars, dialogs, storage, nameChangeListeners, observing,
                   compositionCollections, pending, newest, mounted>>

\* The handler compositionRemoveHandler(navigationPath) of the instance `c`
\* called with the identifier of the removed object: the instance afterwards.
compositionRemoveHandler(c, navigationPath, key) ==
    LET removedNavigationPath == Append(navigationPath, key) IN
    [c EXCEPT
        !.recents = SelectSeq(@,
            LAMBDA recentObject :
                ~IncludesPath(recentObject.navigationPath, removedNavigationPath)),
        !.compositionCollections = @ \ {removedNavigationPath}]

\* The paths under which some instance listens to a composition. unmounted()
\* removes no composition listener.
TrackedPaths ==
    compositionCollections \cup
    UNION { unmountedComponents[n].compositionCollections :
                n \in 1..Len(unmountedComponents) }

\* The object under `key` is removed from the composition tracked under the
\* path: the remove handler of every instance that tracks the path runs.
CompositionRemove(navigationPath, key) ==
    /\ navigationPath \in TrackedPaths
    /\ LET after == IF navigationPath \in compositionCollections
                    THEN compositionRemoveHandler(MountedComponent, navigationPath, key)
                    ELSE MountedComponent
       IN  /\ recents' = after.recents
           /\ compositionCollections' = after.compositionCollections
           /\ recentOp' = [RecentOp("compositionRemove") EXCEPT
                  !.outcome = IF after.recents # recents THEN "removed" ELSE "kept"]
    /\ unmountedComponents' =
           [n \in 1..Len(unmountedComponents) |->
               IF navigationPath \in unmountedComponents[n].compositionCollections
               THEN compositionRemoveHandler(unmountedComponents[n], navigationPath, key)
               ELSE unmountedComponents[n]]
    /\ newest' = <<>>
    /\ UNCHANGED <<timeVars, dialogs, storage, nameChangeListeners, observing, objectNames,
                   pending, mounted>>

\* clearRecentObjects() on the mounted component: the confirmation dialog
\* is opened and the call returns. Nothing else changes until a button of
\* the dialog is pressed.
ClearRecentObjects ==
    /\ mounted
    /\ dialogs < MaxDialogs
    /\ dialogs' = dialogs + 1
    /\ recentOp' = [RecentOp("clearRecentObjects") EXCEPT !.outcome = "dialog"]
    /\ UNCHANGED <<timeVars, recents, storage, nameChangeListeners, observing,
                   compositionCollections, objectNames, pending, newest, mounted,
                   unmountedComponents>>

\* The OK callback of a dialog on the instance `c` that opened it: the
\* instance afterwards. The callback also removes the localStorage item.
AfterOK(c) ==
    [c EXCEPT !.observing = @ \ c.nameChangeListeners,
              !.recents = <<>>,
              !.dialogs = @ - 1]

\* OK is pressed in a dialog the mounted component opened.
DialogOK ==
    /\ dialogs > 0
    /\ LET after == AfterOK(MountedComponent) IN
       /\ observing' = after.observing
       /\ recents' = after.recents
       /\ dialogs' = after.dialogs
    /\ storage' = NoItem
    /\ newest' = <<>>
    /\ recentOp' = [RecentOp("dialogOK") EXCEPT !.outcome = "disable"]
    /\ UNCHANGED <<timeVars, nameChangeListeners, compositionCollections, objectNames,
                   pending, mounted, unmountedComponents>>

\* OK is pressed in a dialog opened by a component that was unmounted
\* since: the callback runs on that instance and on localStorage.
UnmountedDialogOK(n) ==
    /\ n \in 1..Len(unmountedComponents)
    /\ unmountedComponents[n].dialogs > 0
    /\ unmountedComponents' =
           [unmountedComponents EXCEPT ![n] = AfterOK(unmountedComponents[n])]
    /\ storage' = NoItem
    /\ recentOp' = [RecentOp("unmountedDialogOK") EXCEPT !.outcome = "disable"]
    /\ UNCHANGED <<timeVars, dialogs, recents, nameChangeListeners, observing,
                   compositionCollections, objectNames, pending, newest, mounted>>

\* Cancel is pressed in a dialog the mounted component opened.
DialogCancel ==
    /\ dialogs > 0
    /\ dialogs' = dialogs - 1
    /\ recentOp' = RecentOp("dialogCancel")
    /\ UNCHANGED <<timeVars, recents, storage, nameChangeListeners, observing,
                   compositionCollections, objectNames, pending, newest, mounted,
                   unmountedComponents>>

\* Cancel is pressed in a dialog opened by a component unmounted since.
UnmountedDialogCancel(n) ==
    /\ n \in 1..Len(unmountedComponents)
    /\ unmountedComponents[n].dialogs > 0
    /\ unmountedComponents' =
           [unmountedComponents EXCEPT ![n] = [@ EXCEPT !.dialogs = @ - 1]]
    /\ recentOp' = RecentOp("unmountedDialogCancel")
    /\ UNCHANGED <<timeVars, dialogs, recents, storage, nameChangeListeners, observing,
                   compositionCollections, objectNames, pending, newest, mounted>>

\* The mounted component has a call in flight or a dialog open: something
\* of it still runs after unmounted().
IsBusy == pending # <<>> \/ dialogs > 0

\* unmounted() on the mounted component: the router listener is removed and
\* every unlisten function of nameChangeListeners is called; the maps, the
\* list, the calls in flight and the open dialogs stay with the instance. An
\* instance with a call in flight or an open dialog is kept in
\* unmountedComponents (at most MaxUnmounted of them); one without can no
\* longer be reached by the router, by a lookup, by a dialog or by a name
\* observer and is left out.
Unmounted ==
    /\ mounted
    /\ IsBusy => Len(unmountedComponents) < MaxUnmounted
    /\ mounted' = FALSE
    /\ unmountedComponents' =
           IF ~IsBusy THEN unmountedComponents
           ELSE Append(unmountedComponents,
                       [MountedComponent EXCEPT !.observing = @ \ nameChangeListeners])
    /\ recents' = <<>>
    /\ nameChangeListeners' = {}
    /\ observing' = {}
    /\ compositionCollections' = {}
    /\ pending' = <<>>
    /\ dialogs' = 0
    /\ newest' = <<>>
    /\ recentOp' = RecentOp("unmounted")
    /\ UNCHANGED <<timeVars, storage, objectNames>>

\* mounted() on a new component: empty maps, the router listener, then
\* getSavedRecentItems().
Mounted ==
    /\ ~mounted
    /\ mounted' = TRUE
    /\ LET savedRecents == SavedRecents(storage) IN
       /\ recents' = savedRecents
       /\ nameChangeListeners' = ItemKeys(savedRecents)
       /\ observing' = ItemKeys(savedRecents)
       /\ compositionCollections' = ComposablePaths(savedRecents)
    /\ recentOp' = RecentOp("mounted")
    /\ UNCHANGED <<timeVars, dialogs, storage, objectNames, pending, newest, unmountedComponents>>

\* The contexts: resolving, overriding, releasing, bounds changes and ticks.
Next ==
    \/ \E arg \in ResolverArgs : GetContextForView(arg)
    \/ \E key \in KeyStrings, value \in ValueInputs, clockKey \in ClockKeys \cup {Undefined} :
           AddIndependentContext(key, value, clockKey)
    \/ \E key \in KeyStrings : Release(key)
    \/ \E clock \in Clocks : AddClock(clock)
    \/ \E bounds \in ValueInputs : GlobalSetBounds(bounds)
    \/ \E id \in ContextIds, bounds \in ValueInputs : IndependentSetBounds(id, bounds)
    \/ \E key \in ClockKeys, now \in TimeValues : Tick(key, now)

Spec == Init /\ [][Next]_vars

\* The registries: registering descriptors, also under a key already
\* registered, and listing them.
RegistryNext ==
    \/ \E timeSystem \in TimeSystemDescriptors : AddTimeSystem(timeSystem)
    \/ GetAllTimeSystems
    \/ \E clock \in ClockDescriptors : AddClock(clock)
    \/ GetAllClocks

RegistrySpec == Init /\ [][RegistryNext]_vars

\* The time system: registering it and setting it on the Global Time Context
\* and on contexts that override it.
TimeSystemNext ==
    \/ \E timeSystem \in TimeSystems : AddTimeSystem(timeSystem)
    \/ \E arg \in ResolverArgs : GetContextForView(arg)
    \/ \E key \in KeyStrings, value \in ValueInputs :
           AddIndependentContext(key, value, Undefined)
    \/ \E mode \in {FIXED_MODE_KEY, REALTIME_MODE_KEY} : GlobalSetMode(mode)
    \/ \E key \in TimeSystemKeys, bounds \in ValueInputs : GlobalSetTimeSystem(key, bounds)
    \/ \E id \in ContextIds, key \in TimeSystemKeys, bounds \in ValueInputs :
           IndependentSetTimeSystem(id, key, bounds)

TimeSystemSpec == Init /\ [][TimeSystemNext]_vars

\* The independent-context registry under every operation of the TimeAPI.
FrameNext ==
    \/ \E arg \in ResolverArgs : GetContextForView(arg)
    \/ \E key \in KeyStrings, value \in ValueInputs :
           AddIndependentContext(key, value, Undefined)
    \/ \E key \in KeyStrings : GetIndependentContext(key)
    \/ \E key \in KeyStrings : Release(key)
    \/ \E timeSystem \in TimeSystems : AddTimeSystem(timeSystem)
    \/ GetAllTimeSystems
    \/ \E clock \in Clocks : AddClock(clock)
    \/ GetAllClocks

FrameSpec == Init /\ [][FrameNext]_vars

\* The component alone, one navigation at a time: the lookup of a navigation
\* resolves before the next starts, a component is unmounted while it has
\* neither a lookup in flight nor a dialog open,
\* while renames, removals from a composition and clearing happen before and
\* after the resolution.
RecentObjectsNext ==
    \/ \E navigationPath \in NavigationPaths :
           pending = <<>> /\ OnPathChange(navigationPath)
    \/ LookupResolved(1)
    \/ \E key \in DOMAIN InitialNames, newName \in Names : Rename(key, newName)
    \/ \E navigationPath \in TrackedPaths, key \in {"a"} :
           CompositionRemove(navigationPath, key)
    \/ ClearRecentObjects
    \/ DialogOK
    \/ DialogCancel
    \/ ~IsBusy /\ Unmounted
    \/ Mounted

RecentObjectsSpec == RecentObjectsInit /\ [][RecentObjectsNext]_vars

\* Navigations alone, with up to MaxInFlight lookups in flight at once.
NavigationNext ==
    \/ \E navigationPath \in NavigationPaths : OnPathChange(navigationPath)
    \/ \E i \in 1..MaxInFlight : LookupResolved(i)

NavigationSpec == RecentObjectsInit /\ [][NavigationNext]_vars

\* The paths navigated to in the life cycle specification.
LifecyclePaths == { <<"browse", "a">>, <<"browse", "mine", "a">> }

\* The component from an empty localStorage, unmounted and mounted again at
\* any time, also while a lookup is in flight or a dialog is open; each
\* instance starts one navigation at a time, to an object that has no
\* composition.
LifecycleNext ==
    \/ \E navigationPath \in LifecyclePaths :
           pending = <<>> /\ OnPathChange(navigationPath)
    \/ LookupResolved(1)
    \/ \E n \in 1..MaxUnmounted : UnmountedLookupResolved(n, 1)
    \/ \E key \in DOMAIN InitialNames, newName \in Names : Rename(key, newName)
    \/ ClearRecentObjects
    \/ DialogOK
    \/ DialogCancel
    \/ \E n \in 1..MaxUnmounted : UnmountedDialogOK(n)
    \/ \E n \in 1..MaxUnmounted : UnmountedDialogCancel(n)
    \/ Unmounted
    \/ Mounted

LifecycleSpec == Init /\ [][LifecycleNext]_vars

\* ------------------------------------------------------------ properties

IsResolve(op) == op.op = "getContextForView"

\* A resolver call with an array whose first element yields a lookup key.
IsKeyedResolve(op) ==
    IsResolve(op) /\ IsArray(op.arg) /\ Truthy(ViewKey(op.arg.path))

\* An instance that no registry entry refers to any more.
Stale(id) ==
    id \in Allocated /\ \A k \in DOMAIN independentContexts : independentContexts[k] # id

FirstKey(id) == makeKeyString(contexts[id].objectPath[1].identifier)

\* C1: resolving is idempotent for a stable path.  After getContextForView(P),
\* with K the key of P's first element, the entry of K is the returned context
\* and holds P's relative path; and a call that finds under K a context with
\* the same relative path string returns that very instance and leaves the
\* registry and every instance unchanged.
C1_IdempotentResolve ==
    [][IsKeyedResolve(lastOp') =>
         LET p == lastOp'.arg.path
             K == ViewKey(p)
         IN  /\ lastOp'.ret = "context"
             /\ K \in DOMAIN independentContexts'
             /\ independentContexts'[K] = lastOp'.retId
             /\ getRelativePath(contexts'[lastOp'.retId].objectPath) = getRelativePath(p)
             /\ (K \in DOMAIN independentContexts
                 /\ getRelativePath(contexts[independentContexts[K]].objectPath)
                        = getRelativePath(p))
                => /\ lastOp'.retId = independentContexts[K]
                   /\ independentContexts' = independentContexts
                   /\ contexts' = contexts
      ]_vars

\* A resolver call has answered with the instance already registered.
C1_Witness ==
    /\ IsKeyedResolve(lastOp)
    /\ lastOp.ret = "context"
    /\ ~lastOp.created
    /\ independentContexts[ViewKey(lastOp.arg.path)] = lastOp.retId

\* C2: invalidation.  When a context is registered under K and
\* getContextForView is called with a path of key K whose relative path string
\* differs from the registered one's, the call returns an instance that did not
\* exist before, created for the new path, the entry of K is that instance, and
\* no entry refers to the old one.
C2_Invalidation ==
    [][(/\ IsKeyedResolve(lastOp')
        /\ ViewKey(lastOp'.arg.path) \in DOMAIN independentContexts
        /\ getRelativePath(contexts[independentContexts[ViewKey(lastOp'.arg.path)]].objectPath)
               # getRelativePath(lastOp'.arg.path))
       => LET p == lastOp'.arg.path
              K == ViewKey(p)
              old == independentContexts[K]
          IN  /\ lastOp'.ret = "context"
              /\ lastOp'.retId # old
              /\ lastOp'.retId \notin Allocated
              /\ lastOp'.retId \in 1..Len(contexts')
              /\ contexts'[lastOp'.retId].objectPath = p
              /\ K \in DOMAIN independentContexts'
              /\ independentContexts'[K] = lastOp'.retId
              /\ \A k \in DOMAIN independentContexts' : independentContexts'[k] # old
      ]_vars

\* A resolver call has replaced the entry of its key: an older instance made
\* for the same key is left outside the registry.
C2_Witness ==
    /\ IsKeyedResolve(lastOp)
    /\ lastOp.created
    /\ \E id \in Allocated :
          /\ id # lastOp.retId
          /\ Stale(id)
          /\ FirstKey(id) = ViewKey(lastOp.arg.path)

\* C3 (as claimed): an instance discarded by the resolver has no listener left
\* on the Global Time Context and none on a clock, and none of its own
\* listeners is invoked by a later global event or tick.
C3_StaleSubscriptionsTornDown ==
    \A id \in ContextIds :
        Stale(id) =>
            /\ ~IsFollowing(contexts[id])
            /\ contexts[id].clock = Undefined
            /\ invoked[id] = <<>>

\* C4: once the context of K has been replaced, a mutation applied to the
\* registered context of K (addIndependentContext(K, ...), or setBounds on the
\* registered instance) invokes no listener of a discarded instance of K.
C4_StaleListenersSilent ==
    \A id \in ContextIds :
        (/\ Stale(id)
         /\ \/ lastOp.op = "addIndependentContext" /\ lastOp.key = FirstKey(id)
            \/ /\ lastOp.op = "context.setBounds"
               /\ ~Stale(lastOp.id)
               /\ FirstKey(lastOp.id) = FirstKey(id))
        => invoked[id] = <<>>

\* An override has been applied through addIndependentContext to the registered
\* context of a key, its listeners were invoked, and a discarded instance of
\* the same key exists.
C4_Witness ==
    /\ lastOp.op = "addIndependentContext"
    /\ lastOp.ret = "release"
    /\ invoked[lastOp.id] # <<>>
    /\ \E id \in Allocated : Stale(id) /\ FirstKey(id) = lastOp.key

\* C5: a resolver call whose key has no registered context
\* returns the Global Time Context.
C5_UnregisteredReturnsGlobal ==
    [][(IsKeyedResolve(lastOp')
        /\ ViewKey(lastOp'.arg.path) \notin DOMAIN independentContexts)
       => lastOp'.ret = "global"
      ]_vars

TimeState == <<global, timeSystems, clocks, clockValue, independentContexts, contexts>>

\* C6 (as claimed): the resolver fails, changing nothing, for a missing
\* argument, for a non-sequence and for an empty sequence.
C6_InvalidArgumentFails ==
    [][(IsResolve(lastOp') /\ (~IsArray(lastOp'.arg) \/ Len(lastOp'.arg.path) = 0))
       => lastOp'.ret = "throw" /\ UNCHANGED TimeState
      ]_vars

\* C6 (amended): the resolver fails, changing nothing, for a missing argument
\* and for a non-sequence; for an empty sequence it returns the Global Time
\* Context, changing nothing.
C6_InvalidArgumentOrGlobal ==
    [][IsResolve(lastOp') =>
         /\ ~IsArray(lastOp'.arg)
            => /\ lastOp'.ret = "throw"
               /\ lastOp'.error = "No objectPath provided"
               /\ UNCHANGED TimeState
         /\ (IsArray(lastOp'.arg) /\ Len(lastOp'.arg.path) = 0)
            => lastOp'.ret = "global" /\ UNCHANGED TimeState
      ]_vars

\* The resolver has rejected a non-array while contexts were registered.
C6_Witness ==
    /\ IsResolve(lastOp)
    /\ lastOp.arg.kind = "object"
    /\ lastOp.ret = "throw"
    /\ DOMAIN independentContexts # {}

\* C7: for a non-empty path whose first element yields no key string the
\* resolver returns the Global Time Context, constructs no instance and leaves
\* the registry unchanged.
C7_NoKeyReturnsGlobal ==
    [][(/\ IsResolve(lastOp')
        /\ IsArray(lastOp'.arg)
        /\ Len(lastOp'.arg.path) > 0
        /\ ~Truthy(makeKeyString(lastOp'.arg.path[1].identifier)))
       => /\ lastOp'.ret = "global"
          /\ UNCHANGED <<independentContexts, contexts>>
      ]_vars

\* The resolver has answered a keyless path while contexts were registered.
C7_Witness ==
    /\ IsResolve(lastOp)
    /\ IsArray(lastOp.arg)
    /\ Len(lastOp.arg.path) > 1
    /\ ~Truthy(makeKeyString(lastOp.arg.path[1].identifier))
    /\ lastOp.ret = "global"
    /\ DOMAIN independentContexts # {}

\* C8 (as claimed): addIndependentContext with no clock key, or with a
\* registered one, succeeds for every object key, and afterwards a context is
\* registered under the key.
C8_AddAlwaysSucceeds ==
    (/\ lastOp.op = "addIndependentContext"
     /\ (lastOp.clockKey = Undefined \/ IsRegisteredClock(lastOp.clockKey)))
    => /\ lastOp.ret = "release"
       /\ lastOp.key \in DOMAIN independentContexts

\* C9 (as claimed, for the call that comes next): after
\* addIndependentContext(K, b, no clock) a resolver call with a path of key K
\* returns a context whose mode reads FIXED and whose bounds read b.
C9_FixedOverrideResolved ==
    [][(/\ lastOp.op = "addIndependentContext"
        /\ lastOp.clockKey = Undefined
        /\ IsKeyedResolve(lastOp')
        /\ ViewKey(lastOp'.arg.path) = lastOp.key)
       => /\ lastOp'.ret = "context"
          /\ getMode(contexts'[lastOp'.retId]) = FIXED_MODE_KEY
          /\ getBounds(contexts'[lastOp'.retId]) = lastOp.value
      ]_vars

\* C10: override isolation.  addIndependentContext and setBounds on an
\* overriding context leave the Global Time Context's mode, clock, offsets and
\* bounds unchanged; setBounds on the Global Time Context leaves the state of
\* every overriding context unchanged.
C10_OverrideIsolation ==
    [][/\ lastOp'.op \in {"addIndependentContext", "context.setBounds"}
          => global' = global
       /\ lastOp'.op = "global.setBounds"
          => \A id \in Allocated :
                ~IsFollowing(contexts[id]) => contexts'[id] = contexts[id]
      ]_vars

\* A FIXED override has been set with bounds other than the ones the Global
\* Time Context holds.
C10_Witness ==
    /\ lastOp.op = "addIndependentContext"
    /\ lastOp.ret = "release"
    /\ lastOp.clockKey = Undefined
    /\ global.bounds # Unset
    /\ global.bounds # lastOp.value
    /\ contexts[lastOp.id].bounds = lastOp.value

IsAdd(op) == op.op = "addIndependentContext"

\* An addIndependentContext call that found a context for its key.
IsAddOnContext(op) == IsAdd(op) /\ op.id # 0

\* An addIndependentContext call that ran to its end.
IsAddReturned(op) == IsAdd(op) /\ op.ret = "release"

NoDuplicates(events) ==
    \A i, j \in 1..Len(events) : i < j => events[i] # events[j]

\* C11: in addIndependentContext the reset comes strictly before any new
\* mode, clock or bounds.  The first statement emits nothing, leaves the
\* context without upstream and without clock listener and with the mode,
\* offsets and bounds it had; the statements after it act on a context that
\* follows nothing and listens to no clock but the new one.  The listeners of
\* the context receive the events of the new state once each and no other
\* context's listeners receive anything; afterwards an event of the Global
\* Time Context is not delivered through the context, and a tick is delivered
\* at most once and only by the clock of the override.
C11_ResetBeforeNewState ==
    [][/\ IsAddOnContext(lastOp')
          => LET id == lastOp'.id
                 before == contexts[id]
                 s == OverrideSteps(before, lastOp'.value, lastOp'.clockKey)
             IN  /\ s[1].events = <<>>
                 /\ ~IsFollowing(s[1].ctx)
                 /\ s[1].ctx.clock = Undefined
                 /\ s[1].ctx.mode = before.mode
                 /\ s[1].ctx.offsets = before.offsets
                 /\ s[1].ctx.bounds = before.bounds
                 /\ \A i \in 2..3 :
                       /\ ~IsFollowing(s[i].ctx)
                       /\ s[i].ctx.clock \in {Undefined, lastOp'.clockKey}
                 /\ contexts'[id] = s[3].ctx
                 /\ invoked'[id] = s[2].events \o s[3].events
                 /\ NoDuplicates(invoked'[id])
                 /\ \A other \in ContextIds \ {id} : invoked'[other] = <<>>
       /\ (IsAddOnContext(lastOp) /\ lastOp'.op = "global.setBounds")
          => invoked'[lastOp.id] = <<>>
       /\ (IsAddOnContext(lastOp) /\ lastOp'.op = "tick")
          => /\ Len(invoked'[lastOp.id]) <= 1
             /\ lastOp'.clockKey # lastOp.clockKey => invoked'[lastOp.id] = <<>>
      ]_vars

\* A context that listened to a clock has been given a FIXED override: its
\* offsets are still the ones of the REALTIME override, its clock listener
\* is gone.
C11_Witness ==
    /\ IsAddReturned(lastOp)
    /\ lastOp.clockKey = Undefined
    /\ contexts[lastOp.id].offsets # Unset
    /\ contexts[lastOp.id].clock = Undefined
    /\ Len(invoked[lastOp.id]) = 2

\* C12: every addIndependentContext(objectKey, ..) that runs to its end makes
\* the Global Time Context emit exactly one event, refreshContext carrying
\* objectKey, and emits it after the new mode and clock or bounds have been
\* applied: a listener reading the bounds of the context for objectKey inside
\* its handler reads the bounds of the override.
C12_OneRefreshAfterOverride ==
    IsAddReturned(lastOp)
    => /\ gEvents = <<Event("refreshContext", lastOp.key, Unset, FALSE)>>
       /\ getIndependentContext(lastOp.key) = lastOp.id
       /\ lastOp.seen = getBounds(contexts[lastOp.id])
       /\ ~Truthy(lastOp.clockKey) => lastOp.seen = lastOp.value
       /\ getMode(contexts[lastOp.id]) = IF Truthy(lastOp.clockKey)
                                         THEN REALTIME_MODE_KEY ELSE FIXED_MODE_KEY

\* A FIXED override has been set and the listener read its bounds, which are
\* not the bounds of the Global Time Context.
C12_Witness ==
    /\ IsAddReturned(lastOp)
    /\ lastOp.clockKey = Undefined
    /\ gEvents # <<>>
    /\ lastOp.seen = lastOp.value
    /\ lastOp.seen # global.bounds

\* C13: addIndependentContext chooses the kind of override by clockKey alone,
\* whatever state the context was in.  With a clockKey the context ends in
\* REALTIME mode and, the clock being registered, with clock clockKey and
\* offsets equal to value; without one it ends in FIXED mode, without clock,
\* with bounds equal to value.
C13_KindByClockKey ==
    IsAddOnContext(lastOp)
    => LET c == contexts[lastOp.id] IN
       IF Truthy(lastOp.clockKey)
       THEN /\ ~IsFollowing(c)
            /\ c.mode = REALTIME_MODE_KEY
            /\ IsAddReturned(lastOp) => c.clock = lastOp.clockKey /\ c.offsets = lastOp.value
       ELSE /\ IsAddReturned(lastOp)
            /\ ~IsFollowing(c)
            /\ c.mode = FIXED_MODE_KEY
            /\ c.clock = Undefined
            /\ c.bounds = lastOp.value

\* A REALTIME override has been set on a context whose bounds differ from
\* the value handed in: the value went to the offsets.
C13_Witness ==
    /\ IsAddReturned(lastOp)
    /\ Truthy(lastOp.clockKey)
    /\ contexts[lastOp.id].mode = REALTIME_MODE_KEY
    /\ contexts[lastOp.id].clock = lastOp.clockKey
    /\ contexts[lastOp.id].offsets = lastOp.value
    /\ contexts[lastOp.id].bounds # lastOp.value

\* C14: a call of the release function for objectKey has one effect, the
\* Global Time Context emitting removeOwnContext carrying objectKey.  The
\* registry, the state of every context and of the Global Time Context and
\* the registries of clocks and time systems are unchanged, no context's
\* listeners are invoked, and the function can be called again.
C14_ReleaseOnlyNotifies ==
    [][lastOp'.op = "release"
       => /\ gEvents' = <<Event("removeOwnContext", lastOp'.key, Unset, FALSE)>>
          /\ invoked' = NoInvocations
          /\ UNCHANGED <<independentContexts, contexts, global, clocks, timeSystems,
                         clockValue, releaseFns>>
          /\ lastOp'.key \in releaseFns'
      ]_vars

\* The release function has been called while the registry holds an
\* overriding context for its key.
C14_Witness ==
    /\ lastOp.op = "release"
    /\ gEvents = <<Event("removeOwnContext", lastOp.key, Unset, FALSE)>>
    /\ getIndependentContext(lastOp.key) # 0
    /\ ~IsFollowing(contexts[getIndependentContext(lastOp.key)])

\* C17 (as claimed): addIndependentContext with a clockKey that is not
\* registered, on a key that has a context, fails with UnknownIdentifier and
\* changes nothing: the state and the listeners of the context, the registry
\* and the Global Time Context are the same as before, and nothing is
\* emitted.
C17_UnknownClockChangesNothing ==
    [][(/\ IsAdd(lastOp')
        /\ Truthy(lastOp'.clockKey)
        /\ ~IsRegisteredClock(lastOp'.clockKey)
        /\ getIndependentContext(lastOp'.key) # 0)
       => /\ lastOp'.ret = "throw"
          /\ lastOp'.error = "UnknownIdentifier"
          /\ gEvents' = <<>>
          /\ invoked' = NoInvocations
          /\ UNCHANGED <<contexts, independentContexts, global, clocks, timeSystems,
                         clockValue>>
      ]_vars

\* C20: a tick of clock k delivering v, after setClock(k, offsets) reached
\* through addIndependentContext, leaves every context listening to k in
\* REALTIME mode with bounds (v + offsets.start, v + offsets.end), the
\* offsets being the value handed to addIndependentContext, and the
\* context's one boundsChanged event of the tick carries those bounds and
\* the tick flag.
C20_TickDerivedBounds ==
    [][lastOp'.op = "tick"
       => \A id \in Allocated :
             (~IsFollowing(contexts[id]) /\ contexts[id].clock = lastOp'.clockKey)
             => LET v == lastOp'.value.start
                    b == [start |-> v + contexts[id].offsets.start,
                          end |-> v + contexts[id].offsets.end]
                IN  /\ contexts'[id].mode = REALTIME_MODE_KEY
                    /\ contexts'[id].clock = lastOp'.clockKey
                    /\ contexts'[id].bounds = b
                    /\ invoked'[id] = <<Event("boundsChanged", "", b, TRUE)>>
                    /\ (IsAddReturned(lastOp) /\ lastOp.id = id)
                       => /\ lastOp.clockKey = lastOp'.clockKey
                          /\ b = [start |-> v + lastOp.value.start,
                                  end |-> v + lastOp.value.end]
      ]_vars

\* The clock of a REALTIME override has ticked with a value other than the
\* one the override was seeded with, and the context's bounds moved with it.
C20_Witness ==
    /\ lastOp.op = "tick"
    /\ lastOp.value.start = 1
    /\ \E id \in Allocated :
          /\ contexts[id].clock = lastOp.clockKey
          /\ contexts[id].mode = REALTIME_MODE_KEY
          /\ contexts[id].offsets \in ValueInputs
          /\ contexts[id].bounds = BoundsAt(1, contexts[id].offsets)
          /\ Len(invoked[id]) = 1
          /\ invoked[id][1].tick

IsRegistration(op) == op.op \in {"addTimeSystem", "addClock"}

\* The registry a registration or a listing is about, before and after it.
RegistryOf(op) ==
    IF op.op \in {"addTimeSystem", "getAllTimeSystems"} THEN timeSystems ELSE clocks

RegistryAfter(op) ==
    IF op.op \in {"addTimeSystem", "getAllTimeSystems"} THEN timeSystems' ELSE clocks'

Registered(op) == Descriptor(op.key, op.name)

IsListed(values, descriptor) == \E i \in 1..Len(values) : values[i] = descriptor

\* C15 (as claimed): the descriptors are listed in registration order, so a
\* descriptor that is registered while it is not listed comes last in the
\* list.
C15_RegistrationOrder ==
    [][(IsRegistration(lastOp')
        /\ ~IsListed(RegistryValues(RegistryOf(lastOp')), Registered(lastOp')))
       => LET listed == RegistryValues(RegistryAfter(lastOp'))
          IN  listed[Len(listed)] = Registered(lastOp')
      ]_vars

\* C15 (amended): getAllTimeSystems and getAllClocks list one descriptor for
\* each registered key, the keys in the order of their first registration
\* and each with the descriptor registered for it last: a registration under
\* a new key appends to the list, a registration under a key already
\* registered replaces the descriptor at the key's position.  A listing
\* returns this list and changes neither registry, so repeated listings
\* return the same sequence.
C15_FirstRegistrationOrder ==
    [][/\ IsRegistration(lastOp')
          => LET old == RegistryValues(RegistryOf(lastOp'))
                 new == Registered(lastOp')
             IN  RegistryValues(RegistryAfter(lastOp')) =
                     IF \E i \in 1..Len(old) : old[i].key = new.key
                     THEN [i \in 1..Len(old) |->
                              IF old[i].key = new.key THEN new ELSE old[i]]
                     ELSE Append(old, new)
       /\ lastOp'.op \in {"getAllTimeSystems", "getAllClocks"}
          => /\ lastOp'.list = RegistryValues(RegistryOf(lastOp'))
             /\ UNCHANGED <<timeSystems, clocks>>
       /\ lastOp'.op = "addTimeSystem" => UNCHANGED clocks
       /\ lastOp'.op = "addClock" => UNCHANGED timeSystems
      ]_vars

\* Two time systems are registered and the one registered last is listed
\* first: its key had been registered before.
C15_Witness ==
    /\ lastOp.op = "addTimeSystem"
    /\ Len(RegistryValues(timeSystems)) = 2
    /\ RegistryValues(timeSystems)[1] = Registered(lastOp)
    /\ RegistryValues(timeSystems)[2].key # lastOp.key

\* C16 (as claimed): a registration under a key already registered fails or
\* produces a warning.
C16_DuplicateFailsOrWarns ==
    [][(IsRegistration(lastOp') /\ RegistryHas(RegistryOf(lastOp'), lastOp'.key))
       => lastOp'.ret = "throw" \/ lastOp'.warning # ""
      ]_vars

\* C16 (amended): a registration under a key already registered neither
\* fails nor warns: it returns normally and silently replaces the key's
\* descriptor, the keys and their order staying as they were; addTimeSystem
\* and addClock apply this same policy.
C16_DuplicateOverwritesSilently ==
    [][(IsRegistration(lastOp') /\ RegistryHas(RegistryOf(lastOp'), lastOp'.key))
       => LET old == RegistryOf(lastOp')
              new == RegistryAfter(lastOp')
          IN  /\ lastOp'.ret = "void"
              /\ lastOp'.error = ""
              /\ lastOp'.warning = ""
              /\ new.order = old.order
              /\ new.at[lastOp'.key] = Registered(lastOp')
              /\ \A k \in DOMAIN old.at \ {lastOp'.key} : new.at[k] = old.at[k]
      ]_vars

\* A clock has been registered under a key that was registered before, with
\* a time-system key registered twice as well.
C16_Witness ==
    /\ lastOp.op = "addClock"
    /\ Len(clocks.order) = 2
    /\ clocks.order[1] = lastOp.key
    /\ clocks.at[lastOp.key].name = "B"
    /\ \E k \in DOMAIN timeSystems.at : timeSystems.at[k].name = "B"

\* C19: setTimeSystem(k, b) with a registered key k, on the Global Time
\* Context or on a context overriding it, returns normally, leaves the
\* context with time system k and bounds b, and makes the context emit
\* exactly two events: timeSystemChanged carrying k, then boundsChanged
\* carrying b.
C19_SetTimeSystem ==
    (lastOp.op \in {"global.setTimeSystem", "context.setTimeSystem"}
     /\ IsRegisteredTimeSystem(lastOp.key))
    => LET c == IF lastOp.op = "global.setTimeSystem" THEN global ELSE contexts[lastOp.id]
           emitted == IF lastOp.op = "global.setTimeSystem" THEN gEvents
                      ELSE invoked[lastOp.id]
       IN  /\ lastOp.ret = "void"
           /\ c.timeSystem = lastOp.key
           /\ c.bounds = lastOp.value
           /\ emitted = <<Event("timeSystemChanged", lastOp.key, Unset, FALSE),
                          Event("boundsChanged", "", lastOp.value, FALSE)>>

\* The time system has been set on an overriding context, with bounds other
\* than the ones the override was made with, while the Global Time Context
\* has none.
C19_Witness ==
    /\ lastOp.op = "context.setTimeSystem"
    /\ lastOp.ret = "void"
    /\ contexts[lastOp.id].timeSystem = lastOp.key
    /\ contexts[lastOp.id].bounds = lastOp.value
    /\ global.timeSystem = Undefined
    /\ Len(invoked[lastOp.id]) = 2

\* The events of the Global Time Context that C21 is about.
IsFollowedEvent(e) == e.name \in {"boundsChanged", "modeChanged", "timeSystemChanged"}

\* C21: following semantics.  In every call, a context that was returned by
\* the resolver and has no override delivers to its listeners the bounds,
\* mode and time-system events the Global Time Context emitted in that call,
\* with the same payload, once each and in the same order, and nothing else
\* of these kinds; its read accessors return the mode, clock and bounds of
\* the Global Time Context.
C21_FollowingReEmits ==
    [][\A id \in Allocated :
          (IsFollowing(contexts[id]) /\ IsFollowing(contexts'[id]))
          => /\ SelectSeq(invoked'[id], IsFollowedEvent) = SelectSeq(gEvents', IsFollowedEvent)
             /\ getBounds(contexts[id])' = global'.bounds
             /\ getMode(contexts[id])' = global'.mode
             /\ getClock(contexts[id])' = global'.clock
      ]_vars

\* The time system has been set on the Global Time Context while a context
\* follows it: the context's listeners received both events, in order.
C21_Witness ==
    /\ lastOp.op = "global.setTimeSystem"
    /\ lastOp.ret = "void"
    /\ \E id \in Allocated :
          /\ IsFollowing(contexts[id])
          /\ Len(invoked[id]) = 2
          /\ invoked[id][1].name = "timeSystemChanged"
          /\ invoked[id][2].name = "boundsChanged"
          /\ invoked[id] = gEvents
          /\ getBounds(contexts[id]) = lastOp.value

\* C22: a FIXED override given to a context, also one that had a REALTIME
\* override before, leaves the context without clock listener and with the
\* given bounds; from then on no tick changes the context or reaches its
\* listeners, and its bounds change only by a later addIndependentContext
\* or setBounds on that context.
C22_FixedOverrideIgnoresTicks ==
    [][/\ (IsAddReturned(lastOp') /\ ~Truthy(lastOp'.clockKey))
          => /\ ~IsFollowing(contexts'[lastOp'.id])
             /\ contexts'[lastOp'.id].clock = Undefined
             /\ contexts'[lastOp'.id].bounds = lastOp'.value
       /\ \A id \in Allocated :
             (~IsFollowing(contexts[id]) /\ contexts[id].mode = FIXED_MODE_KEY)
             => /\ lastOp'.op = "tick"
                   => contexts'[id] = contexts[id] /\ invoked'[id] = <<>>
                /\ contexts'[id].bounds # contexts[id].bounds
                   => /\ lastOp'.op \in {"addIndependentContext", "context.setBounds"}
                      /\ lastOp'.id = id
      ]_vars

\* The clock has ticked while a context that had a REALTIME override on
\* that clock holds a FIXED override: its bounds are not the tick's.
C22_Witness ==
    /\ lastOp.op = "tick"
    /\ lastOp.value.start = 1
    /\ \E id \in Allocated :
          /\ ~IsFollowing(contexts[id])
          /\ contexts[id].mode = FIXED_MODE_KEY
          /\ contexts[id].offsets \in ValueInputs
          /\ contexts[id].bounds \in ValueInputs
          /\ contexts[id].bounds # BoundsAt(1, contexts[id].offsets)
          /\ invoked[id] = <<>>

\* C23: the independent-context registry changes only in calls of
\* addIndependentContext and getContextForView.  getIndependentContext
\* returns the entry registered under the key, or nothing, and changes no
\* state; addTimeSystem, addClock, getAllTimeSystems, getAllClocks and the
\* release function leave the registry and every context as they were.
C23_RegistryFrame ==
    [][/\ independentContexts' # independentContexts
          => lastOp'.op \in {"addIndependentContext", "getContextForView"}
       /\ lastOp'.op = "getIndependentContext"
          => /\ lastOp'.retId = IF lastOp'.key \in DOMAIN independentContexts
                                THEN independentContexts[lastOp'.key] ELSE 0
             /\ lastOp'.ret = IF lastOp'.key \in DOMAIN independentContexts
                              THEN "context" ELSE "undefined"
             /\ UNCHANGED <<independentContexts, contexts, global, timeSystems, clocks,
                            clockValue, releaseFns>>
       /\ lastOp'.op \in {"addTimeSystem", "addClock", "getAllTimeSystems",
                          "getAllClocks", "release"}
          => UNCHANGED <<independentContexts, contexts>>
      ]_vars

\* A lookup has returned the registered context of a key for which an
\* override was made, with a time system and a clock registered.
C23_Witness ==
    /\ lastOp.op = "getIndependentContext"
    /\ lastOp.retId # 0
    /\ lastOp.retId = independentContexts[lastOp.key]
    /\ lastOp.key \in releaseFns
    /\ timeSystems.order # <<>>
    /\ clocks.order # <<>>

\* C24: registry consistency.  After every call, each entry under a key K
\* holds a context whose stored object path is not empty and starts with an
\* object whose key string is K.  A resolver call with key K leaves under K
\* the context it returns, whose relative path is the one of the path handed
\* in, and changes no other entry; every other call leaves the keys of the
\* registry and the relative path of each entry as they were.
C24_RegistryConsistency ==
    [][/\ \A k \in DOMAIN independentContexts' :
             LET c == contexts'[independentContexts'[k]]
             IN  /\ Len(c.objectPath) > 0
                 /\ makeKeyString(c.objectPath[1].identifier) = k
       /\ (IsKeyedResolve(lastOp') /\ lastOp'.ret = "context")
          => LET key == ViewKey(lastOp'.arg.path)
             IN  /\ key \in DOMAIN independentContexts'
                 /\ independentContexts'[key] = lastOp'.retId
                 /\ getRelativePath(contexts'[lastOp'.retId].objectPath)
                        = getRelativePath(lastOp'.arg.path)
                 /\ \A k \in DOMAIN independentContexts \ {key} :
                       /\ k \in DOMAIN independentContexts'
                       /\ independentContexts'[k] = independentContexts[k]
       /\ ~(IsKeyedResolve(lastOp') /\ lastOp'.ret = "context")
          => /\ DOMAIN independentContexts' = DOMAIN independentContexts
             /\ \A k \in DOMAIN independentContexts :
                   getRelativePath(contexts'[independentContexts'[k]].objectPath)
                       = getRelativePath(contexts[independentContexts[k]].objectPath)
      ]_vars

\* The entry of a key has been replaced after the object moved, and an
\* override has been made on the replacement: the entry holds the path of
\* the last resolver call.
C24_Witness ==
    /\ IsAddReturned(lastOp)
    /\ lastOp.id = 2
    /\ independentContexts[lastOp.key] = 2
    /\ getRelativePath(contexts[2].objectPath) # getRelativePath(contexts[1].objectPath)
    /\ makeKeyString(contexts[2].objectPath[1].identifier) = lastOp.key
\* ---------------------------------------------------------------- C25

NoDuplicatePaths(list) ==
    \A i, j \in 1..Len(list) : list[i].navigationPath = list[j].navigationPath => i = j

\* The step is a lookup resolution that put its item on the list.
IsAdded == recentOp'.op = "lookupResolved" /\ recentOp'.outcome \in {"added", "evicted"}

\* The step took the n-th call in flight to its end.
IsResolved(n) ==
    pending' = [j \in 1..(Len(pending) - 1) |-> IF j < n THEN pending[j] ELSE pending[j + 1]]

\* C25: after every onPathChange that ran to its end the list holds at most
\* MAX_RECENT_ITEMS entries, no two with the same navigationPath, and what
\* such a call removed beyond the entry of its own path are the entries that
\* were at the tail of the list: the list after the call is the navigated
\* path followed by the earlier entries in their earlier order, cut at the
\* limit.
C25_BoundedDistinctTailEviction ==
    [][IsAdded =>
         /\ Len(recents') <= MAX_RECENT_ITEMS
         /\ NoDuplicatePaths(recents')
         /\ \E n \in 1..Len(pending) :
                LET top == ReplaceRoot(pending[n])
                    earlier == SelectSeq(recents, LAMBDA r : r.navigationPath # top)
                IN  /\ IsResolved(n)
                    /\ Len(recents') = IF Len(earlier) + 1 > MAX_RECENT_ITEMS
                                       THEN MAX_RECENT_ITEMS ELSE Len(earlier) + 1
                    /\ recents'[1].navigationPath = top
                    /\ \A i \in 2..Len(recents') : recents'[i] = earlier[i - 1]]_vars

\* A navigation to a path not on a full list removed the entry at the tail.
C25_Witness ==
    /\ recentOp.op = "lookupResolved" /\ recentOp.outcome = "evicted"
    /\ Len(recents) = MAX_RECENT_ITEMS
    /\ recents[1].navigationPath = <<"browse", "mine">>
    /\ \A i \in 1..Len(recents) : recents[i].navigationPath # <<"browse", "a">>

\* ---------------------------------------------------------------- C26

\* A navigation to the path ends with an item on the list: the path names
\* an object of the store that is not deleted.
IsListable(navigationPath) ==
    LET objectPath == getRelativeObjectPath(navigationPath, objectNames)
    IN  Len(objectPath) > 0 /\ objectPath[1].location # "null"

\* C26: once every call in flight has run to its end, the entry at the top
\* of the list is the path of the navigation that started last, whatever
\* the order in which the lookups resolved.
C26_TopIsMostRecentlyStarted ==
    (pending = <<>> /\ newest # <<>> /\ IsListable(newest)) =>
        (Len(recents) > 0 /\ recents[1].navigationPath = ReplaceRoot(newest))

\* ---------------------------------------------------------------- C27

\* C27: every entry of the list has a live name-change listener for its
\* domain object, also after an eviction that removed another entry of the
\* same object and after clearRecentObjects followed by further navigations.
C27_EveryEntryObserved ==
    \A i \in 1..Len(recents) :
        makeKeyString(recents[i].domainObject.identifier) \in observing

\* ---------------------------------------------------------------- C28

\* C28: the list saved in localStorage equals the list in memory of the
\* mounted component after every operation that changes the list in memory.
C28_SavedEqualsInMemory == mounted => SavedRecents(storage) = recents

====
